---------------------------- MODULE Spec2Model ----------------------------
(***************************************************************************)
(* Model of the App component (src/src/App.tsx): a paginated artwork table *)
(* with a cross-page row selection.  The React state of the component is   *)
(* the state of the model; every event handler, every continuation of an   *)
(* async function after an await, and the selection-sync effect is one     *)
(* action.  The third-party API is the environment: a fetch that is in     *)
(* flight may settle at any time, in any order, with any page of rows or   *)
(* with a rejection.                                                       *)
(***************************************************************************)
EXTENDS Integers, Sequences, FiniteSets

(* ------------------------------ bounds --------------------------------- *)
\* artwork identifiers the API can return are 1..MaxId
MaxId == 2
\* the API returns at most MaxPageLen rows in one page
MaxPageLen == 2
\* the largest count the user types into the overlay
MaxN == 2
\* the paginator offers the pages 1..MaxPage
MaxPage == 2
\* async calls (fetchArtworks / selectRows) that can be suspended at once
MaxCalls == 2
\* the API's pagination.total is one of 1..MaxTotal
MaxTotal == 1

Ids == 1..MaxId

(* ------------------------------ helpers -------------------------------- *)
Range(s) == {s[i] : i \in DOMAIN s}

Min(a, b) == IF a <= b THEN a ELSE b

\* Array.prototype.slice(0, n)
Slice(s, n) == SubSeq(s, 1, Min(n, Len(s)))

\* the responses of GET /artworks?page=N: data is an array of at most
\* MaxPageLen rows; a row is represented by its id (the other fields are
\* passed through untouched)
Pages == UNION {[1..n -> Ids] : n \in 0..MaxPageLen}

\* concatenation of a sequence of pages
RECURSIVE Flatten(_)
Flatten(ps) == IF ps = <<>> THEN <<>> ELSE Head(ps) \o Flatten(Tail(ps))

\* the set S of integers as an ascending sequence: the order in which
\* Object.entries enumerates integer-like keys
RECURSIVE Ascending(_)
Ascending(S) ==
    IF S = {} THEN <<>>
    ELSE LET m == CHOOSE x \in S : \A y \in S : x <= y
         IN  <<m>> \o Ascending(S \ {m})

(* ---- text <-> number: property keys and the overlay's input field ----- *)
DigitChars == <<"0", "1", "2", "3", "4", "5", "6", "7", "8", "9">>

IsDigit(c) == \E i \in 1..10 : DigitChars[i] = c

DigitVal(c) == (CHOOSE i \in 1..10 : DigitChars[i] = c) - 1

\* Number.prototype.toString for n >= 0: the key under which selectedRows
\* stores id n, and the text the input shows
RECURSIVE NumberToString(_)
NumberToString(n) ==
    IF n < 10 THEN <<DigitChars[n + 1]>>
    ELSE NumberToString(n \div 10) \o <<DigitChars[(n % 10) + 1]>>

\* value of the longest prefix of digits of s, continuing from acc
RECURSIVE DigitsValue(_, _)
DigitsValue(s, acc) ==
    IF s = <<>> \/ ~IsDigit(Head(s)) THEN acc
    ELSE DigitsValue(Tail(s), 10 * acc + DigitVal(Head(s)))

\* parseInt(s): an optional sign, then the leading digits; NaN when there is
\* no digit
ParseInt(s) ==
    LET neg  == s # <<>> /\ Head(s) = "-"
        body == IF s # <<>> /\ Head(s) \in {"-", "+"} THEN Tail(s) ELSE s
    IN  IF body = <<>> \/ ~IsDigit(Head(body))
        THEN [nan |-> TRUE, val |-> 0]
        ELSE [nan |-> FALSE,
              val |-> IF neg THEN 0 - DigitsValue(body, 0)
                      ELSE DigitsValue(body, 0)]

\* parseInt(e.target.value) || 0
ParseOrZero(s) == IF ParseInt(s).nan THEN 0 ELSE ParseInt(s).val

\* characters the user types into the overlay's input, and the texts typed
InputChars == {"-"} \cup {DigitChars[i + 1] : i \in 1..MaxN}
MaxInputLen == 2
Inputs == UNION {[1..n -> InputChars] : n \in 0..MaxInputLen}

(* ------------------------------- state --------------------------------- *)
VARIABLES
    artworks,            \* rows of the page on display (sequence of ids)
    totalRecords,
    loading,
    currentPage,
    selectedArtworks,    \* the DataTable's selection (rows of the page)
    selectedRows,        \* Record<number, boolean>: function on a set of ids
    rowsToSelect,
    selectedArtworkIds,
    effectPending,       \* the selection-sync effect is scheduled
    calls,               \* the suspended async calls, oldest first
    net,                 \* fetches in flight: [call |-> index in calls, page |-> n]
    toast,               \* notifications shown by the last step
    done                 \* the selectRows call the last step ended: what it
                         \* closed over, asked for and received

vars == <<artworks, totalRecords, loading, currentPage, selectedArtworks,
          selectedRows, rowsToSelect, selectedArtworkIds, effectPending,
          calls, net, toast, done>>

EmptyRows == [id \in {} |-> TRUE]

NotDone == [ended |-> FALSE]

\* ids that map to true in a selection mapping
Marked(rows) == {id \in DOMAIN rows : rows[id] = TRUE}

\* as FilterSelected, but a row is kept when rows has any entry for its id
FilterHasKey(artw, rows) == SelectSeq(artw, LAMBDA id : id \in DOMAIN rows)

\* artworks.filter(artwork => rows[artwork.id] === true)
FilterSelected(artw, rows) ==
    SelectSeq(artw, LAMBDA id : id \in DOMAIN rows /\ rows[id] = TRUE)

\* another async call can be suspended
CanSuspend == Len(calls) < MaxCalls

\* the index a new async call is suspended at
NewCall == Len(calls) + 1

\* calls without the call at index c, which ran to its end
Ended(c) == [i \in 1..(Len(calls) - 1) |-> IF i < c THEN calls[i] ELSE calls[i + 1]]

\* the fetches in flight once fetch f has settled and its call has ended
Settled(f) ==
    {[call |-> IF g.call > f.call THEN g.call - 1 ELSE g.call, page |-> g.page] :
        g \in net \ {f}}

ErrorFetchToast ==
    [severity |-> "error", detail |-> "Failed to fetch artwork data", count |-> 0]

ErrorSelectToast ==
    [severity |-> "error",
     detail |-> "Failed to fetch additional artwork data for selection",
     count |-> 0]

WarnToast ==
    [severity |-> "warn", detail |-> "Please enter a valid number", count |-> 0]

\* `Selected ${k} rows across pages`
SuccessToast(k) ==
    [severity |-> "success", detail |-> "Selected k rows across pages", count |-> k]

\* React runs the effects of a render before it handles the next event
EffectsFlushed == ~effectPending

(* --------------------------- fetchArtworks ----------------------------- *)
\* fetchArtworks(page) up to its await: setLoading(true), issue the fetch
FetchArtworksStart(page) ==
    /\ EffectsFlushed
    /\ CanSuspend
    /\ loading' = TRUE
    /\ calls' = Append(calls, [kind |-> "fetchArtworks", page |-> page])
    /\ net' = net \cup {[call |-> NewCall, page |-> page]}
    /\ toast' = <<>>
    /\ done' = NotDone
    /\ UNCHANGED <<artworks, totalRecords, currentPage, selectedArtworks,
                   selectedRows, rowsToSelect, selectedArtworkIds, effectPending>>

\* state after the first render and its mount effects: fetchArtworks(1) is
\* suspended at its await, the selection-sync effect has run on the empty page
Init ==
    /\ artworks = <<>>
    /\ totalRecords = 0
    /\ loading = TRUE
    /\ currentPage = 1
    /\ selectedArtworks = <<>>
    /\ selectedRows = EmptyRows
    /\ rowsToSelect = 0
    /\ selectedArtworkIds = <<>>
    /\ effectPending = FALSE
    /\ calls = <<[kind |-> "fetchArtworks", page |-> 1]>>
    /\ net = {[call |-> 1, page |-> 1]}
    /\ toast = <<>>
    /\ done = NotDone

\* onPageChange: the paginator's page is 0-based, the API's is 1-based
OnPageChange(eventPage) == FetchArtworksStart(eventPage + 1)

\* as FetchArtworksResolve, but the selection is reset when a page is shown
FetchArtworksResolveClearing(f, data, total) ==
    /\ EffectsFlushed
    /\ f \in net
    /\ calls[f.call].kind = "fetchArtworks"
    /\ artworks' = data
    /\ totalRecords' = total
    /\ currentPage' = f.page
    /\ selectedRows' = EmptyRows
    /\ selectedArtworkIds' = <<>>
    /\ loading' = FALSE
    /\ effectPending' = TRUE
    /\ calls' = Ended(f.call)
    /\ net' = Settled(f)
    /\ toast' = <<>>
    /\ done' = NotDone
    /\ UNCHANGED <<selectedArtworks, rowsToSelect>>

\* the fetch of fetchArtworks resolved with data and pagination
\* {total, current_page}; current_page is the page that was asked for
FetchArtworksResolve(f, data, total) ==
    /\ EffectsFlushed
    /\ f \in net
    /\ calls[f.call].kind = "fetchArtworks"
    /\ artworks' = data
    /\ totalRecords' = total
    /\ currentPage' = f.page
    /\ loading' = FALSE
    /\ effectPending' = TRUE
    /\ calls' = Ended(f.call)
    /\ net' = Settled(f)
    /\ toast' = <<>>
    /\ done' = NotDone
    /\ UNCHANGED <<selectedArtworks, selectedRows, rowsToSelect, selectedArtworkIds>>

\* as FetchArtworksReject, but the table is emptied on a failure
FetchArtworksRejectClearing(f) ==
    /\ EffectsFlushed
    /\ f \in net
    /\ calls[f.call].kind = "fetchArtworks"
    /\ toast' = <<ErrorFetchToast>>
    /\ artworks' = <<>>
    /\ totalRecords' = 0
    /\ effectPending' = TRUE
    /\ loading' = FALSE
    /\ calls' = Ended(f.call)
    /\ net' = Settled(f)
    /\ done' = NotDone
    /\ UNCHANGED <<currentPage, selectedArtworks, selectedRows, rowsToSelect,
                   selectedArtworkIds>>

\* the fetch (or response.json()) of fetchArtworks rejected
FetchArtworksReject(f) ==
    /\ EffectsFlushed
    /\ f \in net
    /\ calls[f.call].kind = "fetchArtworks"
    /\ toast' = <<ErrorFetchToast>>
    /\ loading' = FALSE
    /\ calls' = Ended(f.call)
    /\ net' = Settled(f)
    /\ done' = NotDone
    /\ UNCHANGED <<artworks, totalRecords, currentPage, selectedArtworks,
                   selectedRows, rowsToSelect, selectedArtworkIds, effectPending>>

(* ------------------------ selection-sync effect ------------------------ *)
SelectionSyncEffect ==
    /\ effectPending
    /\ effectPending' = FALSE
    /\ selectedArtworks' = IF Len(artworks) > 0
                           THEN FilterSelected(artworks, selectedRows)
                           ELSE selectedArtworks
    /\ toast' = <<>>
    /\ done' = NotDone
    /\ UNCHANGED <<artworks, totalRecords, loading, currentPage, selectedRows,
                   rowsToSelect, selectedArtworkIds, calls, net>>

(* -------------------------- onSelectionChange -------------------------- *)
\* what the DataTable can report as e.value: rows of the page on display and
\* rows of the selection it was given, in ascending order of id (the handler
\* reads e.value only through some(), so the order is immaterial)
SelectionEvents == {Ascending(S) : S \in SUBSET (Range(artworks) \cup Range(selectedArtworks))}

\* as MergeSelection, but starting from an empty mapping, not a copy of rows
MergeIntoEmpty(rows, artw, selectedItems) ==
    [id \in Range(artw) |-> id \in Range(selectedItems)]

\* artworks.forEach(a => rows[a.id] = selectedItems.some(i => i.id === a.id))
\* applied to a copy of rows
MergeSelection(rows, artw, selectedItems) ==
    [id \in DOMAIN rows \cup Range(artw) |->
        IF id \in Range(artw) THEN id \in Range(selectedItems) ELSE rows[id]]

\* Object.entries(rows).filter(([, v]) => v).map(([id]) => parseInt(id))
SelectedIdsOf(rows) ==
    LET keys == Ascending(Marked(rows))
    IN  [i \in 1..Len(keys) |-> ParseInt(NumberToString(keys[i])).val]

OnSelectionChange(selectedItems) ==
    LET newSelectedRows == MergeSelection(selectedRows, artworks, selectedItems)
    IN  /\ EffectsFlushed
        /\ selectedArtworks' = selectedItems
        /\ selectedArtworkIds' = SelectedIdsOf(newSelectedRows)
        /\ selectedRows' = newSelectedRows
        /\ effectPending' = TRUE
        /\ toast' = <<>>
        /\ done' = NotDone
        /\ UNCHANGED <<artworks, totalRecords, loading, currentPage, rowsToSelect,
                       calls, net>>

(* ------------------------- the overlay's input ------------------------- *)
\* onChange of the InputText: setRowsToSelect(parseInt(e.target.value) || 0);
\* the texts considered are those whose value is in -1..MaxN
OnRowsToSelectChange(text) ==
    /\ EffectsFlushed
    /\ ParseOrZero(text) <= MaxN
    /\ ParseOrZero(text) >= 0 - 1
    /\ rowsToSelect' = ParseOrZero(text)
    /\ toast' = <<>>
    /\ done' = NotDone
    /\ UNCHANGED <<artworks, totalRecords, loading, currentPage, selectedArtworks,
                   selectedRows, selectedArtworkIds, effectPending, calls, net>>

(* ------------------------------ selectRows ----------------------------- *)
\* as NewSelectedRows, but starting from a copy of the current selection
KeptSelectedRows == selectedRows

\* "Start fresh": const newSelectedRows = {}
NewSelectedRows == EmptyRows

\* as TakePrefix, but every row of the page is taken whatever the count
TakeWholePage(sel, rows, count) ==
    [rows |-> [id \in DOMAIN sel.rows \cup Range(rows) |->
                 IF id \in Range(rows) THEN TRUE ELSE sel.rows[id]],
     ids  |-> sel.ids \o rows]

\* rows.slice(0, count).forEach(a => { sel.rows[a.id] = true; sel.ids.push(a.id) })
TakePrefix(sel, rows, count) ==
    [rows |-> [id \in DOMAIN sel.rows \cup Range(Slice(rows, count)) |->
                 IF id \in Range(Slice(rows, count)) THEN TRUE ELSE sel.rows[id]],
     ids  |-> sel.ids \o Slice(rows, count)]

\* as Remaining, but the count is never lowered
RemainingStuck(call, nextPageSelectCount) == call.remainingToSelect

\* remainingToSelect -= nextPageSelectCount
Remaining(call, nextPageSelectCount) == call.remainingToSelect - nextPageSelectCount

\* as LoopFetch, but the page after is requested without awaiting this one
LoopFetchAhead(c, page) == {[call |-> c, page |-> page], [call |-> c, page |-> page + 1]}

\* the fetches one pass of the while loop issues for call c
LoopFetch(c, page) == {[call |-> c, page |-> page]}

\* the statements after the loop: save the selection, update the table's
\* selection from the artworks the handler closed over, show the success toast
SelectRowsFinish(call, shown, failed) ==
    /\ selectedRows' = call.newSelectedRows
    /\ selectedArtworkIds' = call.newSelectedIds
    /\ selectedArtworks' = FilterSelected(call.artworks, call.newSelectedRows)
    /\ effectPending' = TRUE
    /\ toast' = shown \o <<SuccessToast(Len(call.newSelectedIds))>>
    /\ done' = [ended |-> TRUE, failed |-> failed, n |-> call.rowsToSelect,
                artworks |-> call.artworks, currentPage |-> call.currentPage,
                fetched |-> call.fetched, requested |-> call.requested,
                discarded |-> Marked(selectedRows) \ DOMAIN call.newSelectedRows]

\* the click on "submit": selectRows up to its first await, or to its end
\* when the page on display already holds enough rows
SelectRows ==
    IF rowsToSelect <= 0
    THEN /\ EffectsFlushed
         /\ toast' = <<WarnToast>>
         /\ done' = NotDone
         /\ UNCHANGED <<artworks, totalRecords, loading, currentPage,
                        selectedArtworks, selectedRows, rowsToSelect,
                        selectedArtworkIds, effectPending, calls, net>>
    ELSE LET currentPageCount == Min(rowsToSelect, Len(artworks))
             sel == TakePrefix([rows |-> NewSelectedRows, ids |-> <<>>],
                               artworks, currentPageCount)
             call == [kind |-> "selectRows",
                      rowsToSelect |-> rowsToSelect,
                      artworks |-> artworks,
                      currentPage |-> currentPage,
                      newSelectedRows |-> sel.rows,
                      newSelectedIds |-> sel.ids,
                      remainingToSelect |-> rowsToSelect - currentPageCount,
                      nextPage |-> currentPage + 1,
                      fetched |-> <<>>,
                      requested |-> <<>>]
         IN  IF call.remainingToSelect > 0
             THEN /\ EffectsFlushed
                  /\ CanSuspend
                  /\ loading' = TRUE
                  /\ calls' = Append(calls,
                                 [call EXCEPT !.requested = <<call.nextPage>>])
                  /\ net' = net \cup LoopFetch(NewCall, call.nextPage)
                  /\ toast' = <<>>
                  /\ done' = NotDone
                  /\ UNCHANGED <<artworks, totalRecords, currentPage,
                                 selectedArtworks, selectedRows, rowsToSelect,
                                 selectedArtworkIds, effectPending>>
             ELSE /\ EffectsFlushed
                  /\ SelectRowsFinish(call, <<>>, FALSE)
                  /\ UNCHANGED <<artworks, totalRecords, loading, currentPage,
                                 rowsToSelect, calls, net>>

\* the fetch of the loop resolved with data: break on an empty page, else
\* take a prefix and go round the loop again or leave it
SelectRowsResolve(f, data) ==
    /\ EffectsFlushed
    /\ f \in net
    /\ calls[f.call].kind = "selectRows"
    /\ LET call == calls[f.call]
           got  == [call EXCEPT !.fetched = Append(call.fetched, data)]
           nextPageSelectCount == Min(call.remainingToSelect, Len(data))
           sel  == TakePrefix([rows |-> call.newSelectedRows,
                               ids |-> call.newSelectedIds],
                              data, nextPageSelectCount)
           more == [got EXCEPT !.newSelectedRows = sel.rows,
                               !.newSelectedIds = sel.ids,
                               !.remainingToSelect = Remaining(call, nextPageSelectCount),
                               !.nextPage = @ + 1]
       IN  IF Len(data) = 0
           THEN /\ SelectRowsFinish(got, <<>>, FALSE)
                /\ loading' = FALSE
                /\ calls' = Ended(f.call)
                /\ net' = Settled(f)
                /\ UNCHANGED <<artworks, totalRecords, currentPage, rowsToSelect>>
           ELSE IF more.remainingToSelect > 0
           THEN /\ loading' = TRUE
                /\ calls' = [calls EXCEPT ![f.call] =
                               [more EXCEPT !.requested = Append(@, more.nextPage)]]
                /\ net' = (net \ {f}) \cup LoopFetch(f.call, more.nextPage)
                /\ toast' = <<>>
                /\ done' = NotDone
                /\ UNCHANGED <<artworks, totalRecords, currentPage,
                               selectedArtworks, selectedRows, rowsToSelect,
                               selectedArtworkIds, effectPending>>
           ELSE /\ SelectRowsFinish(more, <<>>, FALSE)
                /\ loading' = FALSE
                /\ calls' = Ended(f.call)
                /\ net' = Settled(f)
                /\ UNCHANGED <<artworks, totalRecords, currentPage, rowsToSelect>>

\* as SelectRowsReject, but the failed page is asked for again
SelectRowsRejectRetrying(f) ==
    /\ EffectsFlushed
    /\ f \in net
    /\ calls[f.call].kind = "selectRows"
    /\ toast' = <<ErrorSelectToast>>
    /\ loading' = TRUE
    /\ done' = NotDone
    /\ UNCHANGED <<artworks, totalRecords, currentPage, selectedArtworks,
                   selectedRows, rowsToSelect, selectedArtworkIds, effectPending,
                   calls, net>>

\* the fetch of the loop rejected: toast, break, finally, then the statements
\* after the loop
SelectRowsReject(f) ==
    /\ EffectsFlushed
    /\ f \in net
    /\ calls[f.call].kind = "selectRows"
    /\ SelectRowsFinish(calls[f.call], <<ErrorSelectToast>>, TRUE)
    /\ loading' = FALSE
    /\ calls' = Ended(f.call)
    /\ net' = Settled(f)
    /\ UNCHANGED <<artworks, totalRecords, currentPage, rowsToSelect>>

Next ==
    \/ \E p \in 0..(MaxPage - 1) : OnPageChange(p)
    \/ \E f \in net, data \in Pages, total \in 1..MaxTotal :
          FetchArtworksResolve(f, data, total)
    \/ \E f \in net : FetchArtworksReject(f)
    \/ SelectionSyncEffect
    \/ \E selectedItems \in SelectionEvents : OnSelectionChange(selectedItems)
    \/ \E text \in Inputs : OnRowsToSelectChange(text)
    \/ SelectRows
    \/ \E f \in net, data \in Pages : SelectRowsResolve(f, data)
    \/ \E f \in net : SelectRowsReject(f)

Spec == Init /\ [][Next]_vars

(* ============================== claims ================================= *)
\* the rows of a sequence of pages that come before its first empty page
RECURSIVE RowsBeforeEmpty(_)
RowsBeforeEmpty(pages) ==
    IF pages = <<>> \/ Head(pages) = <<>> THEN <<>>
    ELSE Head(pages) \o RowsBeforeEmpty(Tail(pages))

\* the pages a selectRows call that ended went through: the page it closed
\* over, then the pages it received
PagesOf(d) == <<d.artworks>> \o d.fetched

\* the pages after page cp, k of them, in order
PagesAfter(cp, k) == [i \in 1..k |-> cp + i]

\* C1 as claimed: when selectRows ends with N > 0 and no fetch failed, the
\* ids marked are the first min(N, K) rows of the in-memory page followed by
\* the pages currentPage+1, currentPage+2, ..., K being the number of rows of
\* that sequence of pages up to its first empty page.
C1_AsClaimed ==
    (done.ended /\ ~done.failed) =>
        LET K == Len(RowsBeforeEmpty(PagesOf(done)))
        IN  /\ Marked(selectedRows) =
                   Range(Slice(Flatten(PagesOf(done)), Min(done.n, K)))
            /\ done.requested = PagesAfter(done.currentPage, Len(done.fetched))

\* C1 amended: the same, K being the number of rows of the in-memory page
\* plus the rows of the fetched pages up to the first empty fetched page (an
\* empty in-memory page does not end the loop); the in-memory page and
\* currentPage are those of the moment selectRows was called.
C1_MarksPrefix ==
    (done.ended /\ ~done.failed) =>
        LET K == Len(done.artworks) + Len(RowsBeforeEmpty(done.fetched))
        IN  /\ Marked(selectedRows) =
                   Range(Slice(Flatten(PagesOf(done)), Min(done.n, K)))
            /\ done.requested = PagesAfter(done.currentPage, Len(done.fetched))

\* a call that took the whole in-memory page and a proper prefix of a
\* fetched page
C1_Witness ==
    /\ done.ended /\ ~done.failed
    /\ done.artworks # <<>>
    /\ done.fetched # <<>>
    /\ Len(Flatten(PagesOf(done))) > done.n

\* C2 as claimed: never two fetches in flight at once.
C2_AsClaimed == Cardinality(net) <= 1

\* C2 amended: every suspended call of fetchArtworks or selectRows has
\* exactly one fetch in flight, so a call never has two outstanding at once;
\* the fetches of overlapping calls (page changes, submit clicks) can be
\* outstanding together.
C2_OnePerCall ==
    /\ \A f \in net : f.call \in 1..Len(calls)
    /\ \A c \in 1..Len(calls) : Cardinality({f \in net : f.call = c}) = 1

\* the second fetch of a selectRows loop in flight next to another call's
C2_Witness ==
    /\ Cardinality(net) = 2
    /\ \E c \in 1..Len(calls) :
          calls[c].kind = "selectRows" /\ Len(calls[c].requested) >= 2

\* a step of a page change: onPageChange, or its fetch settling either way
PageChangeStep ==
    \/ \E p \in 0..(MaxPage - 1) : OnPageChange(p)
    \/ \E f \in net, data \in Pages, total \in 1..MaxTotal :
          FetchArtworksResolve(f, data, total)
    \/ \E f \in net : FetchArtworksReject(f)

\* C3: a page change, whether its fetch succeeds or fails, leaves
\* selectedRows and selectedArtworkIds as they were, so the ids marked before
\* a navigation are still marked after it.
C3_SelectionPersists ==
    [][PageChangeStep =>
          /\ selectedRows' = selectedRows
          /\ selectedArtworkIds' = selectedArtworkIds]_vars

\* another page than the first is on display and an id that is not on it is
\* still marked
C3_Witness ==
    /\ currentPage # 1
    /\ artworks # <<>>
    /\ ~loading
    /\ Marked(selectedRows) \ Range(artworks) # {}

\* C4: when the fetch of fetchArtworks rejects, the error toast is shown,
\* loading becomes false, the call ends without issuing another fetch, and
\* artworks, totalRecords and currentPage keep their values.
C4_FetchFailureCaught ==
    [][(\E f \in net : FetchArtworksReject(f)) =>
          /\ toast' = <<ErrorFetchToast>>
          /\ loading' = FALSE
          /\ Len(calls') = Len(calls) - 1
          /\ Cardinality(net') = Cardinality(net) - 1
          /\ artworks' = artworks
          /\ totalRecords' = totalRecords
          /\ currentPage' = currentPage]_vars

\* a page change failed while a loaded page was on display
C4_Witness ==
    /\ toast = <<ErrorFetchToast>>
    /\ artworks # <<>>
    /\ totalRecords > 0
    /\ currentPage # 1

\* C5: when a fetch of the selectRows loop rejects, the error notification is
\* shown, the call ends (the failed page is not asked for again and no
\* further page is fetched by it), and loading ends false.
C5_LoopAborted ==
    [][(\E f \in net : SelectRowsReject(f)) =>
          /\ ErrorSelectToast \in Range(toast')
          /\ Len(calls') = Len(calls) - 1
          /\ Cardinality(net') = Cardinality(net) - 1
          /\ done'.ended /\ done'.failed
          /\ loading' = FALSE]_vars

\* a selectRows call ended by a rejected fetch, after a page it received
C5_Witness ==
    /\ done.ended /\ done.failed
    /\ done.fetched # <<>>
    /\ ErrorSelectToast \in Range(toast)

\* the fetches a selectRows call may issue: N - min(N, rows on the page)
FetchBudget(n, artw) == n - Min(n, Len(artw))

\* C6: the loop is bounded: a suspended selectRows call waits for the fetch
\* of its nextPage, which is in flight, still has rows to select, and the
\* fetches it has issued plus the rows it still has to select, less the one
\* fetch in flight, never exceed N - min(N, rows on the current page); so
\* each pass leaves the loop or lowers remainingToSelect, and a call issues
\* at most that many fetches before it ends.
C6_LoopBounded ==
    /\ \A c \in 1..Len(calls) :
          calls[c].kind = "selectRows" =>
             /\ [call |-> c, page |-> calls[c].nextPage] \in net
             /\ calls[c].remainingToSelect >= 1
             /\ Len(calls[c].requested) - 1 + calls[c].remainingToSelect
                   <= FetchBudget(calls[c].rowsToSelect, calls[c].artworks)
    /\ done.ended =>
          Len(done.requested) <= FetchBudget(done.n, done.artworks)

\* a call that used its whole budget of more than one fetch
C6_Witness ==
    /\ done.ended
    /\ Len(done.requested) >= 2
    /\ Len(done.requested) = FetchBudget(done.n, done.artworks)

\* C7: after onSelectionChange, for every artwork on the current page
\* selectedRows[id] is true exactly when the artwork is in the event's
\* value, and the entry of every id that is not on the page is unchanged.
C7_MergeById ==
    [][\A selectedItems \in SelectionEvents :
          OnSelectionChange(selectedItems) =>
             /\ \A id \in Range(artworks) :
                   /\ id \in DOMAIN selectedRows'
                   /\ selectedRows'[id] = (id \in Range(selectedItems))
             /\ \A id \in Ids \ Range(artworks) :
                   /\ (id \in DOMAIN selectedRows') = (id \in DOMAIN selectedRows)
                   /\ id \in DOMAIN selectedRows =>
                         selectedRows'[id] = selectedRows[id]]_vars

\* a row of the page was unchecked by hand while an id of another page
\* stays marked
C7_Witness ==
    /\ effectPending
    /\ ~done.ended
    /\ \E id \in Range(artworks) : id \in DOMAIN selectedRows /\ ~selectedRows[id]
    /\ Marked(selectedRows) \ Range(artworks) # {}

\* the rows a selectRows call that ended has gathered
Gathered(d) == Range(Slice(Flatten(PagesOf(d)), d.n))

\* C8: when selectRows ends (count reached, empty page or failed fetch),
\* selectedRows maps exactly the ids gathered by the call to true and has no
\* other key: what was selected before the call is discarded.
C8_StartsFresh ==
    done.ended =>
       /\ DOMAIN selectedRows = Gathered(done)
       /\ \A id \in DOMAIN selectedRows : selectedRows[id] = TRUE

\* a call that ended and discarded an id that was marked before it
C8_Witness ==
    /\ done.ended
    /\ done.discarded # {}

\* C9: whenever the page on display is not empty and no effect is pending,
\* selectedArtworks is the rows of artworks whose id maps to true in
\* selectedRows.
C9_TableShowsSelection ==
    (artworks # <<>> /\ ~effectPending) =>
       selectedArtworks =
          SelectSeq(artworks, LAMBDA id : id \in Marked(selectedRows))

\* after a navigation, with the effect run: a page with a checked row and a
\* row that was unchecked by hand
C9_Witness ==
    /\ ~effectPending
    /\ currentPage # 1
    /\ selectedArtworks # <<>>
    /\ \E id \in Range(artworks) : id \in DOMAIN selectedRows /\ ~selectedRows[id]

\* C10 as claimed: selectedArtworkIds has no duplicate, its elements are the
\* ids that map to true in selectedRows, and the count of the success toast
\* is the number of marked ids.
C10_AsClaimed ==
    /\ \A i, j \in 1..Len(selectedArtworkIds) :
          selectedArtworkIds[i] = selectedArtworkIds[j] => i = j
    /\ Range(selectedArtworkIds) = Marked(selectedRows)
    /\ done.ended =>
          toast[Len(toast)].count = Cardinality(Marked(selectedRows))
=============================================================================
